---- MODULE Spec2Model ----
(***************************************************************************)
(* A model of the issue/tag store of src/server/issue.py and of its HTTP   *)
(* route handlers.                                                         *)
(*                                                                         *)
(* Python dicts are TLA+ records whose DOMAIN is the dict's key set, so    *)
(* that `"title" in issue` is `"title" \in DOMAIN issue` and two dicts are *)
(* equal exactly when the records are.  Lists are sequences.               *)
(*                                                                         *)
(* The database is a record [issue, tag] of two sets of rows.  `db` is the *)
(* committed content of the file, `tx` is what the request's connection    *)
(* sees (the committed content plus its own uncommitted writes).           *)
(*                                                                         *)
(* The module-level names request, jsonify, validate, ValidationError and  *)
(* sqlite3, which issue.py uses without importing, are taken to be bound   *)
(* as src/server/server.py lines 1-6 bind them.  Names that are unbound    *)
(* inside one handler (get_issue_route) are modelled as the NameError they *)
(* raise.                                                                  *)
(*                                                                         *)
(* models/schema.sql is not among the sources: the constraints of the two  *)
(* tables (CheckIssueRow, CheckTagRow) are modelled from the specification.*)
(***************************************************************************)
EXTENDS Integers, Sequences, FiniteSets, TLC

VARIABLES
    db,        \* committed database: [issue |-> rows, tag |-> rows]
    tx,        \* the request connection's view of the database
    pc,        \* "idle" | "loop" | "exit" | "done": position of the handler
    request,   \* [method, payload] of the request being handled, or NoRequest
    i,         \* index of the next item of to_issue_list(request)
    results,   \* created_issues / updated_issues of the running handler
    response,  \* the handler's return value, or NoResponse
    g,         \* the request context's namespace: holds "database" or nothing
    connections \* the database connections that are open

vars == <<db, tx, pc, request, i, results, response, g, connections>>

-----------------------------------------------------------------------------
(* Bounds of the model *)

\* Largest issue id the store may assign (requests that could pass it are not taken).
MaxIssueId == 2
\* Largest tag id the store may assign.
MaxTagId == 2

-----------------------------------------------------------------------------
(* Values *)

\* Python's None as returned by get_issue for a missing issue.
None == [none |-> TRUE]
\* SQL NULL in a column of a result row (Python None inside a fetched tag).
NULL == "<NULL>"
\* The empty dict {}.
EmptyDict == [k \in {} |-> k]

NoRequest == [method |-> "none"]
NoResponse == [status |-> "none"]

\* {**d, k: v}
Merge(d, k, v) == [key \in (DOMAIN d) \cup {k} |-> IF key = k THEN v ELSE d[key]]
\* d.get(k, default)
Get(d, k, default) == IF k \in DOMAIN d THEN d[k] ELSE default

Max(S) == CHOOSE m \in S : \A n \in S : n <= m

EmptyDb == [issue |-> {}, tag |-> {}]

-----------------------------------------------------------------------------
(* The two tables' constraints (models/schema.sql) *)

\* issue(id PK, title NOT NULL, description): a row needs a non-empty title.
CheckIssueRow(title, description) ==
    title # NULL /\ title # ""

\* tag(id PK, namespace, predicate, value, issue_id): the three fields are
\* non-empty, and no other row of the same issue holds the same three fields.
\* `self` is the id of the row being written (excluded from the uniqueness test).
CheckTagRow(tagRows, self, namespace, predicate, value, issue_id) ==
    /\ namespace # NULL /\ namespace # ""
    /\ predicate # NULL /\ predicate # ""
    /\ value # NULL /\ value # ""
    /\ ~\E t \in tagRows :
          /\ t.id # self
          /\ t.namespace = namespace
          /\ t.predicate = predicate
          /\ t.value = value
          /\ t.issue_id = issue_id

-----------------------------------------------------------------------------
(* SQL statements.  Each yields [db, exc, lastrowid]; a statement that      *)
(* raises leaves the database as it was (the statement is backed out, the  *)
(* transaction's earlier statements are kept).                             *)

Ok(d) == [db |-> d, exc |-> "none", lastrowid |-> 0]
Raise(d, e) == [db |-> d, exc |-> e, lastrowid |-> 0]

\* The id the store assigns to a new row: one more than the largest in use.
NewRowId(rows) == IF rows = {} THEN 1 ELSE Max({r.id : r \in rows}) + 1

\* INSERT INTO issue (title, description) VALUES (?, ?)
InsertIssue(d, title, description) ==
    IF ~CheckIssueRow(title, description)
    THEN Raise(d, "IntegrityError")
    ELSE LET id == NewRowId(d.issue)
         IN [db |-> [d EXCEPT !.issue = @ \cup
                        {[id |-> id, title |-> title, description |-> description]}],
             exc |-> "none",
             lastrowid |-> id]

\* INSERT INTO tag (namespace, predicate, value, issue_id) VALUES (?, ?, ?, ?)
InsertTag(d, namespace, predicate, value, issue_id) ==
    LET id == NewRowId(d.tag)
    IN IF ~CheckTagRow(d.tag, id, namespace, predicate, value, issue_id)
       THEN Raise(d, "IntegrityError")
       ELSE [db |-> [d EXCEPT !.tag = @ \cup
                        {[id |-> id, namespace |-> namespace, predicate |-> predicate,
                          value |-> value, issue_id |-> issue_id]}],
             exc |-> "none",
             lastrowid |-> id]

\* UPDATE issue SET title = ?, description = ? WHERE id = ?
UpdateIssue(d, id, title, description) ==
    IF (\E r \in d.issue : r.id = id) /\ ~CheckIssueRow(title, description)
    THEN Raise(d, "IntegrityError")
    ELSE Ok([d EXCEPT !.issue =
                {IF r.id = id
                 THEN [r EXCEPT !.title = title, !.description = description]
                 ELSE r : r \in @}])

\* DELETE FROM tag, without the WHERE clause.
DeleteTagsOfEveryIssue(d, issue_id) ==
    Ok([d EXCEPT !.tag = {}])

\* DELETE FROM tag WHERE issue_id = ?
DeleteTagsOfIssue(d, issue_id) ==
    Ok([d EXCEPT !.tag = {t \in @ : t.issue_id # issue_id}])

\* DELETE FROM issue WHERE id = ?
DeleteIssue(d, id) ==
    Ok([d EXCEPT !.issue = {r \in @ : r.id # id}])

\* DELETE FROM tag WHERE id = ?
DeleteTag(d, tag_id) ==
    Ok([d EXCEPT !.tag = {t \in @ : t.id # tag_id}])

\* UPDATE tag SET <the keys of fields> WHERE id = ? AND issue_id = ?
UpdateTag(d, tag_id, issue_id, fields) ==
    LET hit(t) == t.id = tag_id /\ t.issue_id = issue_id
        new(t) == [k \in DOMAIN t |-> IF k \in DOMAIN fields THEN fields[k] ELSE t[k]]
    IN IF \E t \in d.tag :
            /\ hit(t)
            /\ ~CheckTagRow(d.tag, t.id, new(t).namespace, new(t).predicate,
                            new(t).value, new(t).issue_id)
       THEN Raise(d, "IntegrityError")
       ELSE Ok([d EXCEPT !.tag = {IF hit(t) THEN new(t) ELSE t : t \in @}])

-----------------------------------------------------------------------------
(* get_issue *)

\* The tag rows of one issue in row order, as the dicts get_issue builds.
RECURSIVE TagDicts(_)
TagDicts(rows) ==
    IF rows = {} THEN <<>>
    ELSE LET first == CHOOSE t \in rows : \A u \in rows : t.id <= u.id
         IN <<[namespace |-> first.namespace,
               predicate |-> first.predicate,
               value |-> first.value]>> \o TagDicts(rows \ {first})

\* `if contains_tag:` tests the lambda object, which is always true.
contains_tag(row) == TRUE

\* The rows of issue LEFT JOIN tag for one issue: one row per tag, or a single
\* row with NULL tag columns when the issue has no tag.
JoinRows(d, id) ==
    LET own == {t \in d.tag : t.issue_id = id}
    IN IF own = {}
       THEN <<[namespace |-> NULL, predicate |-> NULL, value |-> NULL]>>
       ELSE TagDicts(own)

get_issue(d, id) ==
    IF ~\E r \in d.issue : r.id = id
    THEN None
    ELSE LET r == CHOOSE r \in d.issue : r.id = id
             rows == JoinRows(d, id)
         IN [id |-> r.id,
             title |-> r.title,
             description |-> r.description,
             tags |-> SelectSeq(rows, contains_tag)]

-----------------------------------------------------------------------------
(* create_issue *)

\* create_issue's tag loop with a non-empty default for a key the tag lacks.
RECURSIVE create_tags_defaulting(_, _, _, _)
create_tags_defaulting(d, tags, issue_id, k) ==
    IF k > Len(tags) THEN Ok(d)
    ELSE LET tag == tags[k]
             r == InsertTag(d,
                            Get(tag, "namespace", "default"),
                            Get(tag, "predicate", "default"),
                            Get(tag, "value", "default"),
                            issue_id)
         IN IF r.exc # "none" THEN r
            ELSE create_tags_defaulting(r.db, tags, issue_id, k + 1)

\* The loop over issue.get("tags", []) of create_issue, from the k-th tag on.
RECURSIVE create_tags(_, _, _, _)
create_tags(d, tags, issue_id, k) ==
    IF k > Len(tags) THEN Ok(d)
    ELSE LET tag == tags[k]
             r == InsertTag(d,
                            Get(tag, "namespace", ""),
                            Get(tag, "predicate", ""),
                            Get(tag, "value", ""),
                            issue_id)
         IN IF r.exc # "none" THEN r
            ELSE create_tags(r.db, tags, issue_id, k + 1)

\* create_issue that stores an empty description whatever the issue carries.
create_issue_without_description(d, issue) ==
    IF "title" \notin DOMAIN issue
    THEN [db |-> d, exc |-> "KeyError", val |-> None]
    ELSE LET r == InsertIssue(d, issue.title, "")
         IN IF r.exc # "none"
            THEN [db |-> r.db, exc |-> r.exc, val |-> None]
            ELSE LET t == create_tags(r.db, Get(issue, "tags", <<>>), r.lastrowid, 1)
                 IN IF t.exc # "none"
                    THEN [db |-> t.db, exc |-> t.exc, val |-> None]
                    ELSE [db |-> t.db, exc |-> "none",
                          val |-> Merge(issue, "id", r.lastrowid)]

\* Yields [db, exc, val]: val is the returned dict {**issue, "id": issue_id}.
create_issue(d, issue) ==
    IF "title" \notin DOMAIN issue
    THEN [db |-> d, exc |-> "KeyError", val |-> None]
    ELSE LET r == InsertIssue(d, issue.title, Get(issue, "description", ""))
         IN IF r.exc # "none"
            THEN [db |-> r.db, exc |-> r.exc, val |-> None]
            ELSE LET t == create_tags(r.db, Get(issue, "tags", <<>>), r.lastrowid, 1)
                 IN IF t.exc # "none"
                    THEN [db |-> t.db, exc |-> t.exc, val |-> None]
                    ELSE [db |-> t.db, exc |-> "none",
                          val |-> Merge(issue, "id", r.lastrowid)]

-----------------------------------------------------------------------------
(* replace_issue *)

\* The loop over fields.get("tags", []) of replace_issue, from the k-th tag on.
\* tag["namespace"] and the like raise KeyError for an absent key.
RECURSIVE replace_tags(_, _, _, _)
replace_tags(d, tags, id, k) ==
    IF k > Len(tags) THEN Ok(d)
    ELSE LET tag == tags[k]
         IN IF ~({"namespace", "predicate", "value"} \subseteq DOMAIN tag)
            THEN Raise(d, "KeyError")
            ELSE LET r == InsertTag(d, tag.namespace, tag.predicate, tag.value, id)
                 IN IF r.exc # "none" THEN r
                    ELSE replace_tags(r.db, tags, id, k + 1)

\* replace_issue without its DELETE FROM tag statement: the issue's prior tags stay.
replace_issue_keeping_tags(d, id, fields) ==
    IF ~({"title", "description"} \subseteq DOMAIN fields)
    THEN [db |-> d, exc |-> "KeyError", val |-> None]
    ELSE LET u == UpdateIssue(d, id, fields.title, fields.description)
         IN IF u.exc # "none"
            THEN [db |-> u.db, exc |-> u.exc, val |-> None]
            ELSE LET t == replace_tags(u.db, Get(fields, "tags", <<>>), id, 1)
                 IN IF t.exc # "none"
                    THEN [db |-> t.db, exc |-> t.exc, val |-> None]
                    ELSE [db |-> t.db, exc |-> "none", val |-> get_issue(t.db, id)]

\* Yields [db, exc, val]: val is get_issue(cursor, id) after the writes.
replace_issue(d, id, fields) ==
    IF ~({"title", "description"} \subseteq DOMAIN fields)
    THEN [db |-> d, exc |-> "KeyError", val |-> None]
    ELSE LET u == UpdateIssue(d, id, fields.title, fields.description)
         IN IF u.exc # "none"
            THEN [db |-> u.db, exc |-> u.exc, val |-> None]
            ELSE LET x == DeleteTagsOfIssue(u.db, id)
                     t == replace_tags(x.db, Get(fields, "tags", <<>>), id, 1)
                 IN IF t.exc # "none"
                    THEN [db |-> t.db, exc |-> t.exc, val |-> None]
                    ELSE [db |-> t.db, exc |-> "none", val |-> get_issue(t.db, id)]

\* update_issue of server.py builds its statements by formatting each value
\* between double quotes into the SQL text.  A value that itself holds a
\* double quote ends the token early and the statement does not parse.
WithDoubleQuote == {"say \"hi\""}

\* What the token "v" denotes in  UPDATE issue SET title = "v" : SQLite reads
\* a double-quoted token that names a column of the table as that column
\* (of the row as it was before the statement) and any other as a string.
Interpolated(v, row) ==
    CASE v = "title" -> row.title
      [] v = "description" -> row.description
      [] v = "id" -> ToString(row.id)
      [] OTHER -> v

\* The loop over fields.get("tags", []) of update_issue, from the k-th tag on.
\* In a VALUES list no column is in scope: a token is read as a string.
RECURSIVE update_tags(_, _, _, _)
update_tags(d, tags, id, k) ==
    IF k > Len(tags) THEN Ok(d)
    ELSE LET tag == tags[k]
         IN IF ~({"namespace", "predicate", "value"} \subseteq DOMAIN tag)
            THEN Raise(d, "KeyError")
            ELSE IF {tag.namespace, tag.predicate, tag.value} \cap WithDoubleQuote # {}
            THEN Raise(d, "OperationalError")
            ELSE LET r == InsertTag(d, tag.namespace, tag.predicate, tag.value, id)
                 IN IF r.exc # "none" THEN r
                    ELSE update_tags(r.db, tags, id, k + 1)

\* update_issue of server.py: UPDATE issue SET <the title and description
\* that fields names> WHERE id, skipped when fields names neither; then
\* DELETE FROM tag WHERE issue_id, then one INSERT per tag of fields.
\* Yields [db, exc].
update_issue(d, id, fields) ==
    LET named == DOMAIN fields \cap {"title", "description"}
        rows == {r \in d.issue : r.id = id}
        u == IF named = {} THEN Ok(d)
             ELSE IF \E k \in named : fields[k] \in WithDoubleQuote
             THEN Raise(d, "OperationalError")
             ELSE IF rows = {} THEN Ok(d)
             ELSE LET row == CHOOSE r \in rows : TRUE
                  IN UpdateIssue(d, id,
                                 IF "title" \in named
                                 THEN Interpolated(fields.title, row) ELSE row.title,
                                 IF "description" \in named
                                 THEN Interpolated(fields.description, row)
                                 ELSE row.description)
    IN IF u.exc # "none"
       THEN [db |-> u.db, exc |-> u.exc]
       ELSE LET x == DeleteTagsOfIssue(u.db, id)
                t == update_tags(x.db, Get(fields, "tags", <<>>), id, 1)
            IN [db |-> t.db, exc |-> t.exc]

-----------------------------------------------------------------------------
(* patch_issue *)

\* The first statement of patch_issue,
\*   UPDATE issue SET <k = ?, ...> WHERE id = ?
\* with the parameters (*fields_to_update.values(), (str(id),)).  With no
\* field to update the SET clause is empty and the statement does not parse;
\* otherwise the last parameter is a tuple, which sqlite3 cannot bind.
patch_update_issue(d, id, fields_to_update) ==
    IF DOMAIN fields_to_update = {}
    THEN Raise(d, "OperationalError")
    ELSE Raise(d, "ProgrammingError")

\* The loop over fields.get("tags", []) of patch_issue, from the k-th tag on.
RECURSIVE patch_tags(_, _, _, _)
patch_tags(d, tags, id, k) ==
    IF k > Len(tags) THEN Ok(d)
    ELSE LET tag == tags[k]
             keys == {key \in {"namespace", "predicate", "value"} :
                          key \in DOMAIN tag /\ tag[key] # ""}
             fields_to_update == [key \in keys |-> tag[key]]
             r == IF "id" \in DOMAIN tag
                  THEN IF keys # {}
                       THEN UpdateTag(d, tag.id, id, fields_to_update)
                       ELSE DeleteTag(d, tag.id)
                  ELSE IF ~({"namespace", "predicate", "value"} \subseteq DOMAIN tag)
                       THEN Raise(d, "KeyError")
                       ELSE InsertTag(d, tag.namespace, tag.predicate, tag.value, id)
         IN IF r.exc # "none" THEN r
            ELSE patch_tags(r.db, tags, id, k + 1)

\* Yields [db, exc, val]: val is get_issue(cursor, id) after the writes.
patch_issue(d, id, fields) ==
    LET keys == {key \in {"title", "description"} : key \in DOMAIN fields}
        fields_to_update == [key \in keys |-> fields[key]]
        u == patch_update_issue(d, id, fields_to_update)
    IN IF u.exc # "none"
       THEN [db |-> u.db, exc |-> u.exc, val |-> None]
       ELSE LET t == patch_tags(u.db, Get(fields, "tags", <<>>), id, 1)
            IN IF t.exc # "none"
               THEN [db |-> t.db, exc |-> t.exc, val |-> None]
               ELSE [db |-> t.db, exc |-> "none", val |-> get_issue(t.db, id)]

-----------------------------------------------------------------------------
(* Request validation and response construction *)

\* One error string of an errors list.
Str(s) == [str |-> s]
\* A list nested inside an errors list.
List(seq) == [list |-> seq]

\* payload(data, errors, status_code): the {data, errors} envelope.
payload(data, errors, status_code) ==
    [status |-> status_code, envelope |-> TRUE, data |-> data,
     errors |-> errors, raised |-> "none"]

\* A handler that returns a bare list instead of payload(...).
BareList(data, status_code) ==
    [status |-> status_code, envelope |-> FALSE, data |-> data,
     errors |-> <<>>, raised |-> "none"]

\* An exception that leaves the handler: the framework answers 500 itself.
Unhandled(e) ==
    [status |-> 500, envelope |-> FALSE, data |-> <<>>,
     errors |-> <<>>, raised |-> e]

\* to_issue_list handing out an array payload last item first.
to_issue_list_reversed(body) ==
    IF body.kind = "dict" THEN <<body.json>>
    ELSE [k \in 1 .. Len(body.json) |-> body.json[Len(body.json) + 1 - k]]

\* to_issue_list: a dict payload becomes a list of one dict.
to_issue_list(body) ==
    IF body.kind = "dict" THEN <<body.json>> ELSE body.json

\* The JSON schema of validate_request_payload on type-correct values: the
\* payload is one issue or a non-empty array of issues, each issue has the
\* required keys, and each of its tags has the required keys.
\* The schema without the array's minItems: an empty array passes.
validate_request_payload_without_minItems(require_issue_title, require_issue_id, require_tag_fields, body) ==
    LET issue_required == (IF require_issue_title THEN {"title"} ELSE {})
                          \cup (IF require_issue_id THEN {"id"} ELSE {})
        tag_required == IF require_tag_fields
                        THEN {"namespace", "predicate", "value"} ELSE {}
        issue_ok(issue) ==
            /\ issue_required \subseteq DOMAIN issue
            /\ \A k \in DOMAIN Get(issue, "tags", <<>>) :
                   tag_required \subseteq DOMAIN issue.tags[k]
        issues == to_issue_list(body)
    IN \A k \in DOMAIN issues : issue_ok(issues[k])

validate_request_payload(require_issue_title, require_issue_id, require_tag_fields, body) ==
    LET issue_required == (IF require_issue_title THEN {"title"} ELSE {})
                          \cup (IF require_issue_id THEN {"id"} ELSE {})
        tag_required == IF require_tag_fields
                        THEN {"namespace", "predicate", "value"} ELSE {}
        issue_ok(issue) ==
            /\ issue_required \subseteq DOMAIN issue
            /\ \A k \in DOMAIN Get(issue, "tags", <<>>) :
                   tag_required \subseteq DOMAIN issue.tags[k]
        issues == to_issue_list(body)
    IN /\ body.kind = "list" => Len(body.json) >= 1
       /\ \A k \in DOMAIN issues : issue_ok(issues[k])

\* The decorator arguments of each route.
Validate(method, body) ==
    CASE method = "POST"  -> validate_request_payload(TRUE, TRUE, TRUE, body)
      [] method = "PUT"   -> validate_request_payload(FALSE, TRUE, FALSE, body)
      [] method = "PATCH" -> validate_request_payload(FALSE, TRUE, FALSE, body)

\* The except clauses shared by the POST, PUT and PATCH handlers.
except_clauses(exc) ==
    IF exc = "IntegrityError"
    THEN payload(EmptyDict, <<Str("failed to create rows in sqlite"), Str(exc)>>, 400)
    ELSE payload(EmptyDict, <<Str("unexpected server error"), Str(exc)>>, 500)

-----------------------------------------------------------------------------
(* The loop bodies of the POST, PUT and PATCH handlers.  Each yields         *)
(* [db, exc, out, ret]: out is what the item appends to the handler's list, *)
(* ret is the response of a return statement inside the loop (or            *)
(* NoResponse).                                                             *)

post_item(d, issue) ==
    LET r == create_issue(d, issue)
    IN [db |-> r.db, exc |-> r.exc,
        out |-> IF r.exc = "none" THEN <<r.val>> ELSE <<>>,
        ret |-> NoResponse]

\* PUT's defaults with a non-empty default title.
put_defaults_untitled(issue) ==
    LET a == IF "title" \in DOMAIN issue THEN issue ELSE Merge(issue, "title", "untitled")
        b == IF "description" \in DOMAIN a THEN a ELSE Merge(a, "description", "")
    IN IF "tags" \in DOMAIN b THEN b ELSE Merge(b, "tags", <<>>)

\* The defaults PUT gives the keys an item leaves out.
put_defaults(issue) ==
    LET a == IF "title" \in DOMAIN issue THEN issue ELSE Merge(issue, "title", "")
        b == IF "description" \in DOMAIN a THEN a ELSE Merge(a, "description", "")
    IN IF "tags" \in DOMAIN b THEN b ELSE Merge(b, "tags", <<>>)

\* put_item that replaces without looking whether the issue is stored.
put_item_without_existence_check(d, issue) ==
    LET r == replace_issue(d, issue.id, put_defaults(issue))
    IN [db |-> r.db, exc |-> r.exc,
        out |-> IF r.exc = "none" THEN <<r.val>> ELSE <<>>,
        ret |-> NoResponse]

\* The body of put_issue_route's loop after its existence check:
\* `fetched` is what get_issue returned, d the database the writes meet.
put_item_after(fetched, d, issue) ==
    IF fetched = None
    THEN LET r == create_issue(d, issue)
         IN [db |-> r.db, exc |-> r.exc, out |-> <<>>, ret |-> NoResponse]
    ELSE LET r == replace_issue(d, issue.id, put_defaults(issue))
         IN [db |-> r.db, exc |-> r.exc,
             out |-> IF r.exc = "none" THEN <<r.val>> ELSE <<>>,
             ret |-> NoResponse]

put_item(d, issue) == put_item_after(get_issue(d, issue.id), d, issue)

\* patch_item creating the issue when its id is unknown, as put_item does.
patch_item_upserting(d, issue) ==
    IF get_issue(d, issue.id) = None
    THEN LET r == create_issue(d, issue)
         IN [db |-> r.db, exc |-> r.exc, out |-> <<>>, ret |-> NoResponse]
    ELSE LET r == patch_issue(d, issue.id, issue)
         IN [db |-> r.db, exc |-> r.exc,
             out |-> IF r.exc = "none" THEN <<r.val>> ELSE <<>>,
             ret |-> NoResponse]

\* The body of patch_issue_route's loop after its existence check.
patch_item_after(fetched, d, issue) ==
    IF fetched = None
    THEN [db |-> d, exc |-> "none", out |-> <<>>,
          ret |-> payload(EmptyDict, <<List(<<Str("issue does not exist")>>)>>, 404)]
    ELSE LET r == patch_issue(d, issue.id, issue)
         IN [db |-> r.db, exc |-> r.exc,
             out |-> IF r.exc = "none" THEN <<r.val>> ELSE <<>>,
             ret |-> NoResponse]

patch_item(d, issue) == patch_item_after(get_issue(d, issue.id), d, issue)

handle_item(method, d, issue) ==
    CASE method = "POST"  -> post_item(d, issue)
      [] method = "PUT"   -> put_item(d, issue)
      [] method = "PATCH" -> patch_item(d, issue)

\* The database a handler's loop leaves behind, run from the k-th item on.
RECURSIVE RunLoop(_, _, _, _)
RunLoop(method, d, issues, k) ==
    IF k > Len(issues) THEN d
    ELSE LET r == handle_item(method, d, issues[k])
         IN IF r.exc # "none" \/ r.ret # NoResponse THEN r.db
            ELSE RunLoop(method, r.db, issues, k + 1)

-----------------------------------------------------------------------------
(* Request payloads.  Issue ids are integers and tag fields are strings; the  *)
(* wire format also admits string ids and numeric tag values, which the      *)
(* store compares and stores as the same column values.                      *)

IssueIds == 1 .. MaxIssueId

Tv == [namespace |-> "n", predicate |-> "p", value |-> "v"]
Tw == [namespace |-> "n", predicate |-> "p", value |-> "w"]

\* Tag lists: valid ones, a duplicated tag, an empty and a missing value, and
\* tags that carry a tag id (with and without a field to update).
TagLists ==
    { <<>>, <<Tv>>, <<Tv, Tv>>, <<Tv, Tw>>,
      <<[namespace |-> "n", predicate |-> "p", value |-> ""]>>,
      <<[namespace |-> "n", predicate |-> "p"]>>,
      <<[id |-> 1, value |-> "w"]>>,
      <<[id |-> 1]>> }

\* S, and every dict of S with key k added with a value of Vals.
WithOpt(S, k, Vals) == S \cup {Merge(issue, k, v) : issue \in S, v \in Vals}
With(S, k, Vals) == {Merge(issue, k, v) : issue \in S, v \in Vals}

\* Issue dicts that vary the issue's own keys ...
FieldIssues ==
    WithOpt(WithOpt(WithOpt({EmptyDict}, "id", IssueIds),
                    "title", {"a", "b", ""}),
            "description", {"d"})
\* ... and issue dicts that vary the tag list.
TagIssues ==
    With(WithOpt(With({EmptyDict}, "id", IssueIds), "title", {"a"}),
         "tags", TagLists)
    \cup With(With(With({EmptyDict}, "id", IssueIds), "description", {"d"}),
              "tags", {<<Tv>>})

\* The issues that batches are made of.
BatchIssues ==
    { [id |-> 1, title |-> "a"],
      [id |-> 1, title |-> "b", description |-> "d"],
      [id |-> 2, title |-> "b", tags |-> <<Tv, Tv>>],
      [id |-> 2, title |-> ""] }

Bodies ==
    {[kind |-> "dict", json |-> issue] : issue \in FieldIssues \cup TagIssues}
    \cup {[kind |-> "list", json |-> <<>>]}
    \cup {[kind |-> "list", json |-> <<issue>>] : issue \in BatchIssues}
    \cup {[kind |-> "list", json |-> <<a, b>>] : a \in BatchIssues, b \in BatchIssues}

Methods == {"POST", "PUT", "PATCH"}

\* No id beyond the bounds is in use.
WithinBounds(d) ==
    /\ \A r \in d.issue : r.id <= MaxIssueId
    /\ \A t \in d.tag : t.id <= MaxTagId

-----------------------------------------------------------------------------
(* The handlers *)

\* `with database:` leaves by commit when no exception reaches it and by
\* rollback otherwise.
with_exit(committed, view, exc) ==
    IF exc = "none" THEN view ELSE committed

\* What the framework makes of the value a handler returns after its loop.
\* post_issue_route returns payload(created_issues); put_issue_route and
\* patch_issue_route return the bare list, which the framework either sends
\* as a JSON array or rejects with a TypeError, depending on its version.
ReturnValues(method, list) ==
    IF method = "POST"
    THEN {payload(list, <<>>, 200)}
    ELSE {BareList(list, 200), Unhandled("TypeError")}

\* get_database: connects and stores the connection in g unless g holds one.
\* Yields [g, connections, val]: val is the connection returned.
get_database(namespace, open) ==
    IF "database" \notin DOMAIN namespace
    THEN LET c == IF open = {} THEN 1 ELSE Max(open) + 1
         IN [g |-> Merge(namespace, "database", c),
             connections |-> open \cup {c}, val |-> c]
    ELSE [g |-> namespace, connections |-> open, val |-> namespace.database]

Init ==
    /\ g = EmptyDict
    /\ connections = {}
    /\ db = EmptyDb
    /\ tx = EmptyDb
    /\ pc = "idle"
    /\ request = NoRequest
    /\ i = 1
    /\ results = <<>>
    /\ response = NoResponse

\* A POST, PUT or PATCH request arrives: the decorator validates the payload
\* and either answers 400 without calling the handler or enters the handler.
Receive(method, body) ==
    /\ pc = "idle"
    /\ request' = [method |-> method, body |-> body]
    /\ tx' = db
    /\ i' = 1
    /\ results' = <<>>
    /\ UNCHANGED db
    /\ IF ~Validate(method, body)
       THEN /\ response' = payload(EmptyDict, <<Str("invalid json payload")>>, 400)
            /\ pc' = "done"
            /\ UNCHANGED <<g, connections>>
       ELSE /\ WithinBounds(RunLoop(method, db, to_issue_list(body), 1))
            /\ response' = NoResponse
            /\ pc' = "loop"
            /\ g' = get_database(g, connections).g
            /\ connections' = get_database(g, connections).connections

\* A loop iteration that swallows an item's exception and goes on to the
\* next item.
Step_continuing ==
    /\ pc = "loop"
    /\ i <= Len(to_issue_list(request.body))
    /\ LET r == handle_item(request.method, tx, to_issue_list(request.body)[i])
       IN /\ tx' = r.db
          /\ IF r.exc = "none" /\ r.ret # NoResponse
             THEN /\ response' = r.ret
                  /\ pc' = "exit"
                  /\ UNCHANGED <<i, results>>
             ELSE /\ results' = results \o r.out
                  /\ i' = i + 1
                  /\ UNCHANGED <<response, pc>>
    /\ UNCHANGED <<db, request, g, connections>>

\* One iteration of the handler's loop over to_issue_list(request).
Step ==
    /\ pc = "loop"
    /\ i <= Len(to_issue_list(request.body))
    /\ LET r == handle_item(request.method, tx, to_issue_list(request.body)[i])
       IN /\ tx' = r.db
          /\ IF r.exc # "none"
             THEN /\ response' = except_clauses(r.exc)
                  /\ pc' = "exit"
                  /\ UNCHANGED <<i, results>>
             ELSE IF r.ret # NoResponse
             THEN /\ response' = r.ret
                  /\ pc' = "exit"
                  /\ UNCHANGED <<i, results>>
             ELSE /\ results' = results \o r.out
                  /\ i' = i + 1
                  /\ UNCHANGED <<response, pc>>
    /\ UNCHANGED <<db, request, g, connections>>

\* The loop is over: the handler returns its list.
Return ==
    /\ pc = "loop"
    /\ i > Len(to_issue_list(request.body))
    /\ \E rv \in ReturnValues(request.method, results) : response' = rv
    /\ pc' = "exit"
    /\ UNCHANGED <<db, tx, request, i, results, g, connections>>

\* The with block is left.  The try statement inside it catches every
\* exception, so none reaches the context manager.
WithExit ==
    /\ pc = "exit"
    /\ db' = with_exit(db, tx, "none")
    /\ tx' = db'
    /\ pc' = "done"
    /\ UNCHANGED <<request, i, results, response, g, connections>>

\* delete_issue_route's statements with the second one keyed by the tag's own
\* id (WHERE id = ?) instead of its issue_id.
delete_statements_by_tag_id(d, id) ==
    DeleteTag(DeleteIssue(d, id).db, id)

\* delete_issue_route's statements without the second one.
delete_statements_issue_only(d, id) ==
    DeleteIssue(d, id)

\* The two statements of delete_issue_route, in order.
delete_statements(d, id) ==
    DeleteTagsOfIssue(DeleteIssue(d, id).db, id)

\* DELETE /api/issue/<id>: the statements run inside the with block; neither
\* raises, so the handler goes on to return payload().
delete_issue_route(id) ==
    /\ pc = "idle"
    /\ request' = [method |-> "DELETE", id |-> id]
    /\ tx' = delete_statements(db, id).db
    /\ response' = payload(EmptyDict, <<>>, 200)
    /\ pc' = "exit"
    /\ i' = 1
    /\ results' = <<>>
    /\ g' = get_database(g, connections).g
    /\ connections' = get_database(g, connections).connections
    /\ UNCHANGED db

\* GET /api/issue/<id>: get_database() is called, then `cursor` is unbound in
\* the handler (NameError), and
\* the except clause that catches it uses `errors` before assigning it
\* (UnboundLocalError), which leaves the handler.
get_issue_route(id) ==
    /\ pc = "idle"
    /\ request' = [method |-> "GET", id |-> id]
    /\ response' = Unhandled("UnboundLocalError")
    /\ pc' = "done"
    /\ tx' = db
    /\ i' = 1
    /\ results' = <<>>
    /\ g' = get_database(g, connections).g
    /\ connections' = get_database(g, connections).connections
    /\ UNCHANGED db

\* close_database that pops the connection from g without closing it.
close_database_without_close ==
    /\ pc = "done"
    /\ pc' = "idle"
    /\ request' = NoRequest
    /\ response' = NoResponse
    /\ tx' = db
    /\ i' = 1
    /\ results' = <<>>
    /\ g' = EmptyDict
    /\ UNCHANGED <<db, connections>>

\* The request context ends: the response has been sent and the teardown
\* function close_database pops the connection from g and closes it, if g
\* held one.  The server waits for the next request.
close_database ==
    /\ pc = "done"
    /\ pc' = "idle"
    /\ request' = NoRequest
    /\ response' = NoResponse
    /\ tx' = db
    /\ i' = 1
    /\ results' = <<>>
    /\ g' = EmptyDict
    /\ connections' = IF "database" \in DOMAIN g
                      THEN connections \ {g.database} ELSE connections
    /\ UNCHANGED db

Next ==
    \/ \E method \in Methods, body \in Bodies : Receive(method, body)
    \/ Step
    \/ Return
    \/ WithExit
    \/ \E id \in IssueIds : delete_issue_route(id)
    \/ \E id \in IssueIds : get_issue_route(id)
    \/ close_database

Spec == Init /\ [][Next]_vars

-----------------------------------------------------------------------------
(* update_issue of server.py, run as test_update_issue runs it: on a store  *)
(* set up beforehand, through one cursor, looking at the store through the  *)
(* same connection afterwards.                                              *)

\* The stores the runs start from: issue 1, with or without a description
\* and a tag, alone or next to issue 2 and its tag.
Fixtures ==
    {[issue |-> {[id |-> 1, title |-> "a", description |-> d1]} \cup other.issue,
      tag |-> {[id |-> k, namespace |-> "n", predicate |-> "p", value |-> "v",
                issue_id |-> 1] : k \in own} \cup other.tag] :
        d1 \in {"d", ""},
        own \in {{}, {1}},
        other \in {EmptyDb,
                   [issue |-> {[id |-> 2, title |-> "b", description |-> "d"]},
                    tag |-> {[id |-> 2, namespace |-> "n", predicate |-> "p",
                              value |-> "w", issue_id |-> 2]}]}}

\* The fields dicts update_issue is called with.
UpdateFields ==
    WithOpt(WithOpt(WithOpt({EmptyDict},
                            "title", {"b", "", "description"} \cup WithDoubleQuote),
                    "description", {"e"}),
            "tags", {<<>>, <<Tw>>, <<Tv, Tv>>, <<[namespace |-> "n", predicate |-> "p"]>>})

UpdateInit ==
    /\ db \in Fixtures
    /\ tx = db
    /\ pc = "idle"
    /\ request = NoRequest
    /\ i = 1
    /\ results = <<>>
    /\ response = NoResponse
    /\ g = EmptyDict
    /\ connections = {}

\* One run: update_issue(cursor, id, fields), after which tx is what the
\* cursor's connection sees.
test_update_issue(id, fields) ==
    /\ pc = "idle"
    /\ request' = [method |-> "update_issue", id |-> id, fields |-> fields]
    /\ tx' = update_issue(db, id, fields).db
    /\ response' = [status |-> "none", raised |-> update_issue(db, id, fields).exc]
    /\ pc' = "done"
    /\ UNCHANGED <<db, i, results, g, connections>>

UpdateNext == \E id \in IssueIds, fields \in UpdateFields : test_update_issue(id, fields)

UpdateSpec == UpdateInit /\ [][UpdateNext]_vars

-----------------------------------------------------------------------------
(* Two requests at once: a PUT or PATCH of one issue and a DELETE, each in  *)
(* its own request context and so on its own connection to the same file.  *)
(*                                                                         *)
(* sqlite3 opens a transaction only in front of the first INSERT, UPDATE or *)
(* DELETE of a connection.  The SELECT of the handler's existence check     *)
(* runs before that, outside any transaction, and its lock on the file is   *)
(* released when its rows have been read.  From its first write until the   *)
(* commit at the end of the with block a connection holds the file's write  *)
(* lock and the other connection still reads the content committed before,  *)
(* so a request's writes and its commit appear as one step to the other.    *)
(*                                                                         *)
(* Here the variables hold one value per request where they differ:        *)
(* pc, request and response are pairs <<PUT or PATCH, DELETE>>, results is  *)
(* what the existence check fetched, db is the committed content and tx    *)
(* the content both requests found on arrival.                             *)

\* The issues the concurrent PUT or PATCH carries.
ConcIssues == {issue \in FieldIssues \cup TagIssues : "id" \in DOMAIN issue}

\* The responses a PUT or PATCH of one issue can end with, given what the
\* loop body yielded for that issue.
Responses(method, r) ==
    IF r.exc # "none" THEN {except_clauses(r.exc)}
    ELSE IF r.ret # NoResponse THEN {r.ret}
    ELSE ReturnValues(method, r.out)

ConcInit ==
    /\ db \in Fixtures
    /\ tx = db
    /\ pc = <<"start", "start">>
    /\ \E method \in {"PUT", "PATCH"}, issue \in ConcIssues, id \in IssueIds :
          request = <<[method |-> method, body |-> [kind |-> "dict", json |-> issue]],
                      [method |-> "DELETE", id |-> id]>>
    /\ i = 1
    /\ results = <<>>
    /\ response = <<NoResponse, NoResponse>>
    /\ g = <<[database |-> 1], [database |-> 2]>>
    /\ connections = {1, 2}

\* The PUT or PATCH handler looks whether its issue is stored.
ConcCheck ==
    /\ pc[1] = "start"
    /\ results' = <<get_issue(db, request[1].body.json.id)>>
    /\ pc' = [pc EXCEPT ![1] = "checked"]
    /\ UNCHANGED <<db, tx, request, i, response, g, connections>>

\* The PUT or PATCH handler runs the rest of its loop body on the content
\* committed by now, leaves the with block, which commits, and returns.
ConcWrite ==
    /\ pc[1] = "checked"
    /\ LET method == request[1].method
           issue == request[1].body.json
           r == IF method = "PUT"
                THEN put_item_after(results[1], db, issue)
                ELSE patch_item_after(results[1], db, issue)
       IN /\ db' = with_exit(db, r.db, "none")
          /\ \E rv \in Responses(method, r) : response' = [response EXCEPT ![1] = rv]
    /\ pc' = [pc EXCEPT ![1] = "done"]
    /\ UNCHANGED <<tx, request, i, results, g, connections>>

\* The DELETE handler runs its two statements and commits.
ConcDelete ==
    /\ pc[2] = "start"
    /\ db' = with_exit(db, delete_statements(db, request[2].id).db, "none")
    /\ response' = [response EXCEPT ![2] = payload(EmptyDict, <<>>, 200)]
    /\ pc' = [pc EXCEPT ![2] = "done"]
    /\ UNCHANGED <<tx, request, i, results, g, connections>>

ConcNext ==
    \/ ConcCheck
    \/ ConcWrite
    \/ ConcDelete

ConcSpec == ConcInit /\ [][ConcNext]_vars

-----------------------------------------------------------------------------
(* Vocabulary of the properties *)

\* The issues of the running POST, PUT or PATCH request, in payload order.
Items == to_issue_list(request.body)
\* The request is a POST, PUT or PATCH of exactly one issue.
Single(method) ==
    /\ request.method = method
    /\ Len(Items) = 1
\* The step that completes a POST, PUT, PATCH or DELETE request: the with
\* block is left.  Before it `db` is the store as the request found it, after it `db`
\* is the store the request leaves behind.
Completing == pc = "exit" /\ pc' = "done"
\* The response reports a failure of an item.
Failed == response.envelope /\ response.status # 200
\* The issue row with a given id, and the tag rows an issue owns.
Stored(d, id) == \E r \in d.issue : r.id = id
Row(d, id) == CHOOSE r \in d.issue : r.id = id
TagsOf(d, id) == {t \in d.tag : t.issue_id = id}
\* The issue is one create accepts: a non-empty title and valid, distinct tags.
ValidIssue(issue) ==
    /\ "title" \in DOMAIN issue /\ issue.title # ""
    /\ LET tags == Get(issue, "tags", <<>>)
       IN /\ \A k \in DOMAIN tags :
                 /\ DOMAIN tags[k] = {"namespace", "predicate", "value"}
                 /\ tags[k].namespace # "" /\ tags[k].predicate # ""
                 /\ tags[k].value # ""
          /\ \A k, l \in DOMAIN tags : k # l => tags[k] # tags[l]

-----------------------------------------------------------------------------
(* C1 *)

\* C1: if processing any item of a POST, PUT or PATCH batch fails, then once
\* the request has completed the issue and tag tables equal their contents
\* before the request.
C1_FailedRequestLeavesStoreUnchanged ==
    [][(Completing /\ Failed) => db' = db]_vars

-----------------------------------------------------------------------------
(* C2 *)

\* C2: creating an issue whose tag list holds two equal tags fails with
\* status 400, and after the request neither the issue row nor any tag row
\* of that issue is persisted.
C2_DuplicateTagsPersistNothing ==
    [][(/\ Completing
        /\ Single("POST")
        /\ "title" \in DOMAIN Items[1] /\ Items[1].title # ""
        /\ Get(Items[1], "tags", <<>>) = <<Tv, Tv>>)
       => (response.status = 400 /\ db' = db)]_vars

-----------------------------------------------------------------------------
(* C3 *)

\* C3: round trip: every issue a successful POST created and returned equals
\* what get_issue returns for the id that create assigned.
C3_CreateFetchRoundTrip ==
    (pc = "done" /\ request.method = "POST" /\ response.status = 200)
    => \A k \in DOMAIN response.data :
           response.data[k] = get_issue(db, response.data[k].id)

-----------------------------------------------------------------------------
(* C4 *)

\* C4: fetching a stored issue that owns no tag row returns tags == [].
C4_TaglessIssueFetchesNoTags ==
    \A r \in db.issue :
        TagsOf(db, r.id) = {} => get_issue(db, r.id).tags = <<>>

-----------------------------------------------------------------------------
(* C5 *)

\* C5: a PUT of one issue whose id is stored, when no statement of it raises,
\* overwrites title and description with the supplied values (the empty
\* string for an omitted description) and leaves the issue with exactly
\* the supplied tags: none of its prior tag rows survives, and an empty or
\* omitted tag list leaves it with no tag.
C5_ReplaceOverwritesFieldsAndTags ==
    [][(/\ Completing
        /\ Single("PUT")
        /\ Stored(db, Items[1].id)
        /\ ~Failed)
       => LET fields == put_defaults(Items[1])
              id == Items[1].id
          IN /\ Stored(db', id)
             /\ Row(db', id).title = fields.title
             /\ Row(db', id).description = fields.description
             /\ TagDicts(TagsOf(db', id)) = fields.tags
             /\ Cardinality(TagsOf(db', id)) = Len(fields.tags)]_vars

\* A replace has acted on an issue that owned a tag, and cleared its tags.
C5_Witness ==
    /\ pc = "exit"
    /\ Single("PUT")
    /\ ~Failed
    /\ Stored(db, Items[1].id)
    /\ TagsOf(db, Items[1].id) # {}
    /\ TagsOf(tx, Items[1].id) = {}
    /\ Row(tx, Items[1].id).title # Row(db, Items[1].id).title

-----------------------------------------------------------------------------
(* C6 *)

\* C6: a PUT of a valid issue whose id matches no stored issue does not fail,
\* inserts a new issue row with the item's title and description, and a 200
\* response carries the created issue in its data.
C6_PutUnknownIdCreatesAndReturns ==
    [][(/\ Completing
        /\ Single("PUT")
        /\ ~Stored(db, Items[1].id)
        /\ ValidIssue(Items[1]))
       => /\ ~Failed
          /\ \E r \in db'.issue \ db.issue :
                 /\ r.title = Items[1].title
                 /\ r.description = Get(Items[1], "description", "")
          /\ response.status = 200 =>
                 \E k \in DOMAIN response.data :
                     response.data[k].title = Items[1].title]_vars

-----------------------------------------------------------------------------
(* C7 *)

\* C7: when a PATCH reaches an item whose id is not stored, the response is
\* 404 and the request leaves the issue and tag tables as it found them.
C7_PatchUnknownIdIsNotFound ==
    [][(/\ Completing
        /\ request.method = "PATCH"
        /\ i <= Len(Items)
        /\ ~Stored(tx, Items[i].id))
       => (response.status = 404 /\ db' = db)]_vars

\* A PATCH of an unknown id has been answered, on a store that holds rows.
C7_Witness ==
    /\ pc = "done"
    /\ request.method = "PATCH"
    /\ response.status = 404
    /\ ~Stored(db, Items[1].id)
    /\ db.issue # {}
    /\ db.tag # {}

-----------------------------------------------------------------------------
(* C8 *)

\* C8: a PATCH that names only description on a stored issue succeeds,
\* updates the description, and leaves the title and the issue's tags
\* unchanged.
C8_PatchDescriptionOnly ==
    [][(/\ Completing
        /\ Single("PATCH")
        /\ DOMAIN Items[1] = {"id", "description"}
        /\ Stored(db, Items[1].id))
       => LET id == Items[1].id
          IN /\ ~Failed
             /\ Row(db', id).description = Items[1].description
             /\ Row(db', id).title = Row(db, id).title
             /\ TagsOf(db', id) = TagsOf(db, id)]_vars

-----------------------------------------------------------------------------
(* C9 *)

\* C9: a PATCH whose tag entry carries a tag id and a non-empty value updates
\* the value of the tag row with that tag id and the patched issue's id,
\* and leaves that row's other fields and every other tag row unchanged.
C9_PatchTagWithIdUpdatesFields ==
    [][(/\ Completing
        /\ Single("PATCH")
        /\ Stored(db, Items[1].id)
        /\ Get(Items[1], "tags", <<>>) = <<[id |-> 1, value |-> "w"]>>
        /\ \E t \in TagsOf(db, Items[1].id) : t.id = 1 /\ t.value # "w")
       => db'.tag = {IF t.id = 1 /\ t.issue_id = Items[1].id
                     THEN [t EXCEPT !.value = "w"]
                     ELSE t : t \in db.tag}]_vars

-----------------------------------------------------------------------------
(* C10 *)

\* C10: a PATCH whose tag entry carries a tag id and no field to update
\* deletes that tag row of the patched issue and no other tag row.
C10_PatchTagWithIdOnlyDeletes ==
    [][(/\ Completing
        /\ Single("PATCH")
        /\ Stored(db, Items[1].id)
        /\ Get(Items[1], "tags", <<>>) = <<[id |-> 1]>>)
       => db'.tag = {t \in db.tag : ~(t.id = 1 /\ t.issue_id = Items[1].id)}]_vars

-----------------------------------------------------------------------------
(* C11 *)

\* C11: a PATCH of a stored, tagless issue with a description and one tag
\* entry that carries no tag id leaves the issue with exactly that one tag,
\* the new description and its old title.
C11_PatchTagWithoutIdInserts ==
    [][(/\ Completing
        /\ Single("PATCH")
        /\ Items[1] = [id |-> Items[1].id, description |-> "d", tags |-> <<Tv>>]
        /\ Stored(db, Items[1].id)
        /\ TagsOf(db, Items[1].id) = {})
       => (/\ Stored(db', Items[1].id)
           /\ Row(db', Items[1].id).description = "d"
           /\ Row(db', Items[1].id).title = Row(db, Items[1].id).title
           /\ \E t \in db'.tag :
                 /\ TagsOf(db', Items[1].id) = {t}
                 /\ t.namespace = "n" /\ t.predicate = "p" /\ t.value = "v")]_vars

-----------------------------------------------------------------------------
(* C12 *)

\* C12: once a DELETE of an id has answered 200, fetching that id yields
\* not-found and no tag row with that issue_id is left in the store.
C12_DeleteRemovesIssueAndTags ==
    [][(/\ Completing
        /\ request.method = "DELETE"
        /\ response.status = 200)
       => (/\ get_issue(db', request.id) = None
           /\ TagsOf(db', request.id) = {})]_vars

\* A DELETE of a stored issue that owns tags is about to commit.
C12_Witness ==
    /\ pc = "exit"
    /\ request.method = "DELETE"
    /\ response.status = 200
    /\ Stored(db, request.id)
    /\ TagsOf(db, request.id) # {}
    /\ ~Stored(tx, request.id)

-----------------------------------------------------------------------------
(* C13 *)

\* C13: a DELETE of an id that is not stored (never stored, or deleted
\* before) answers 200 with no error and leaves both tables as they were.
C13_DeleteIsIdempotent ==
    [][(/\ Completing
        /\ request.method = "DELETE"
        /\ ~Stored(db, request.id))
       => (/\ response.status = 200
           /\ response.envelope
           /\ response.errors = <<>>
           /\ db' = db)]_vars

\* A DELETE of an id that is not stored is about to commit, while another
\* issue and its tags are stored.
C13_Witness ==
    /\ pc = "exit"
    /\ request.method = "DELETE"
    /\ ~Stored(db, request.id)
    /\ db.issue # {}
    /\ \E t \in db.tag : t.id = request.id

-----------------------------------------------------------------------------
(* C14 *)

\* The tag row carries the fields of the tag dict.
SameTag(row, tag) ==
    /\ DOMAIN tag = {"namespace", "predicate", "value"}
    /\ row.namespace = tag.namespace
    /\ row.predicate = tag.predicate
    /\ row.value = tag.value

\* C14: a POST of one issue that answers 200 adds exactly one issue row,
\* whose id no stored issue had and whose title and description are the
\* supplied ones (description "" when omitted), adds exactly one tag row per
\* supplied tag, each owned by the new issue, removes nothing, and returns
\* the issue with the new id.
C14_CreateAddsOneIssueAndItsTags ==
    [][(/\ Completing
        /\ Single("POST")
        /\ response.status = 200)
       => LET issue == Items[1]
              tags == Get(issue, "tags", <<>>)
              newtags == db'.tag \ db.tag
          IN /\ db.issue \subseteq db'.issue
             /\ db.tag \subseteq db'.tag
             /\ \E r \in db'.issue :
                   /\ db'.issue \ db.issue = {r}
                   /\ ~Stored(db, r.id)
                   /\ r.title = issue.title
                   /\ r.description = Get(issue, "description", "")
                   /\ \A t \in newtags : t.issue_id = r.id
                   /\ response.envelope
                   /\ response.data = <<Merge(issue, "id", r.id)>>
             /\ Cardinality(newtags) = Len(tags)
             /\ \A t \in newtags : \E k \in DOMAIN tags : SameTag(t, tags[k])
             /\ \A k \in DOMAIN tags : \E t \in newtags : SameTag(t, tags[k])]_vars

\* A POST of an issue with a description and two tags is about to commit
\* next to an issue that is already stored.
C14_Witness ==
    /\ pc = "exit"
    /\ Single("POST")
    /\ response.status = 200
    /\ db.issue # {}
    /\ Cardinality(tx.issue) = Cardinality(db.issue) + 1
    /\ Cardinality(tx.tag) = Cardinality(db.tag) + 2

-----------------------------------------------------------------------------
(* C15 *)

\* C15: a request that reaches create (a POST, or a PUT of an id that is not
\* stored) with an issue whose title is absent or empty answers 400 and adds
\* no issue row.
C15_CreateWithoutTitleIs400 ==
    [][(/\ Completing
        /\ \/ Single("POST")
           \/ Single("PUT") /\ ~Stored(db, Items[1].id)
        /\ \/ "title" \notin DOMAIN Items[1]
           \/ Items[1].title = "")
       => (/\ response.envelope
           /\ response.status = 400
           /\ db'.issue = db.issue)]_vars

-----------------------------------------------------------------------------
(* C16 *)

TagFields == {"namespace", "predicate", "value"}
\* A tag that lacks one of its three fields or carries an empty one, and a
\* tag that sets one of them to the empty string.
Incomplete(tag) == \E f \in TagFields : f \notin DOMAIN tag \/ tag[f] = ""
SetsEmpty(tag) == \E f \in TagFields : f \in DOMAIN tag /\ tag[f] = ""
\* The step that ends a POST, PUT or PATCH request, whether the payload was
\* turned down on receipt or the handler ran.
Answering == pc # "done" /\ pc' = "done" /\ request'.method \in Methods
TagsSent == Get(to_issue_list(request'.body)[1], "tags", <<>>)

-----------------------------------------------------------------------------
(* C17 *)

-----------------------------------------------------------------------------
(* C18 *)

\* C18: fetching an id that is not stored yields not-found, and a GET of such
\* an id has been answered 404.
C18_GetUnknownIdIs404 ==
    (/\ pc = "done"
     /\ request.method = "GET"
     /\ ~Stored(db, request.id))
    => (/\ get_issue(db, request.id) = None
        /\ response.status = 404)

-----------------------------------------------------------------------------
(* C19 *)

\* The number of issues a payload carries and the k-th of them, as sent.
SentLen(body) == IF body.kind = "dict" THEN 1 ELSE Len(body.json)
SentItem(body, k) == IF body.kind = "dict" THEN body.json ELSE body.json[k]

\* C19: the normalizer turns a single issue object into a list of length 1
\* that holds it and hands an array of issues on unchanged; the handler's
\* k-th iteration applies the k-th issue sent to the store, and the issues a
\* POST has created so far are the first ones sent, in the order sent.
C19_NormalizerKeepsOrder ==
    [][/\ request'.method \in Methods
          => /\ Len(to_issue_list(request'.body)) = SentLen(request'.body)
             /\ \A k \in 1 .. SentLen(request'.body) :
                    to_issue_list(request'.body)[k] = SentItem(request'.body, k)
             /\ Len(results') <= SentLen(request'.body)
             /\ request'.method = "POST"
                => \A k \in DOMAIN results' :
                       results'[k] = Merge(SentItem(request'.body, k), "id", results'[k].id)
       /\ (/\ pc = "loop"
           /\ i <= SentLen(request.body))
          => /\ tx' = handle_item(request.method, tx, SentItem(request.body, i)).db
             /\ pc' = "loop" => i' = i + 1]_vars

\* A POST of an array of two different issues has created the first and is
\* about to handle the second.
C19_Witness ==
    /\ pc = "loop"
    /\ request.method = "POST"
    /\ request.body.kind = "list"
    /\ Len(request.body.json) = 2
    /\ request.body.json[1] # request.body.json[2]
    /\ i = 2
    /\ Len(results) = 1
    /\ results[1].title = request.body.json[1].title

-----------------------------------------------------------------------------
(* C20 *)

\* Handling the issues one after the other from the k-th on: the position of
\* the first one that fails (0 when none does), the response its failure
\* calls for, and the store as that item leaves it.
RECURSIVE FirstFailure(_, _, _, _)
FirstFailure(method, d, issues, k) ==
    IF k > Len(issues) THEN [at |-> 0, db |-> d, response |-> NoResponse]
    ELSE LET r == handle_item(method, d, issues[k])
         IN IF r.exc # "none"
            THEN [at |-> k, db |-> r.db, response |-> except_clauses(r.exc)]
            ELSE IF r.ret # NoResponse
            THEN [at |-> k, db |-> r.db, response |-> r.ret]
            ELSE FirstFailure(method, r.db, issues, k + 1)

\* C20: when a POST, PUT or PATCH completes, its response is the failure of
\* the first item that fails when the items are handled in payload order,
\* the store is as that item left it, and no later item has been applied;
\* the response is a success only when no item fails.
C20_FirstFailureDecides ==
    [][(/\ Completing
        /\ request.method \in Methods)
       => LET f == FirstFailure(request.method, db, Items, 1)
          IN /\ db' = f.db
             /\ IF f.at = 0
                THEN /\ ~Failed
                     /\ i = Len(Items) + 1
                ELSE /\ Failed
                     /\ i = f.at
                     /\ response = f.response]_vars

\* The first of two items has failed and the request is about to complete,
\* although the second item alone would have changed the store.
C20_Witness ==
    /\ pc = "exit"
    /\ request.method \in Methods
    /\ Len(Items) = 2
    /\ i = 1
    /\ Failed
    /\ handle_item(request.method, tx, Items[2]).db # tx

-----------------------------------------------------------------------------
(* C21 *)

\* C21: every response, of every route and on every path, is an envelope
\* whose errors member is a flat list of strings.
C21_EveryResponseIsAnEnvelope ==
    pc \in {"exit", "done"}
    => /\ response.envelope
       /\ \A k \in DOMAIN response.errors : DOMAIN response.errors[k] = {"str"}

-----------------------------------------------------------------------------
(* C22 *)

\* C22: no exception leaves a handler, and every response that is not a
\* success is an envelope with status 400, 404 or 500.
C22_NoExceptionLeavesAHandler ==
    pc \in {"exit", "done"}
    => /\ response.raised = "none"
       /\ response.status # 200
          => (response.envelope /\ response.status \in {400, 404, 500})

-----------------------------------------------------------------------------
(* C23 *)

\* A payload that fails the shape validation of its route: an empty array,
\* an issue without an id, or, for POST, an issue without a title or with a
\* tag that lacks a namespace, predicate or value.
Misshapen(method, body) ==
    \/ SentLen(body) = 0
    \/ \E k \in 1 .. SentLen(body) :
          LET issue == SentItem(body, k)
              tags == Get(issue, "tags", <<>>)
          IN \/ "id" \notin DOMAIN issue
             \/ /\ method = "POST"
                /\ \/ "title" \notin DOMAIN issue
                   \/ \E l \in DOMAIN tags : ~(TagFields \subseteq DOMAIN tags[l])

\* C23: a POST, PUT or PATCH whose payload fails shape validation is answered
\* 400 "invalid json payload" at once: the handler's loop is never entered
\* and the store stays as it was.
C23_MisshapenPayloadIs400 ==
    [][(/\ pc = "idle"
        /\ request'.method \in Methods
        /\ Misshapen(request'.method, request'.body))
       => (/\ pc' = "done"
           /\ response' = payload(EmptyDict, <<Str("invalid json payload")>>, 400)
           /\ db' = db
           /\ tx' = db)]_vars

\* An empty array has been turned down while issues and tags are stored.
C23_Witness ==
    /\ pc = "done"
    /\ request.method \in Methods
    /\ request.body = [kind |-> "list", json |-> <<>>]
    /\ response.status = 400
    /\ db.issue # {}
    /\ db.tag # {}

-----------------------------------------------------------------------------
(* C24 *)

\* C24: a POST of an issue object that has a title, no id and no tags passes
\* validation and the handler's loop is entered.
C24_PostRequiresTitleAlone ==
    [][(/\ pc = "idle"
        /\ request'.method = "POST"
        /\ request'.body.kind = "dict"
        /\ DOMAIN request'.body.json \in {{"title"}, {"title", "description"}})
       => (pc' = "loop" /\ response' = NoResponse)]_vars

-----------------------------------------------------------------------------
(* C25 *)

\* C25: at most one connection is open at any time and it is the one g
\* holds; a further get_database call in the same context returns that
\* connection and opens none; and while no request is being handled, that
\* is after close_database, g is empty and no connection is open.
C25_OneConnectionPerRequest ==
    /\ Cardinality(connections) <= 1
    /\ connections # {}
       => ("database" \in DOMAIN g /\ connections = {g.database})
    /\ "database" \in DOMAIN g
       => /\ g.database \in connections
          /\ get_database(g, connections)
             = [g |-> g, connections |-> connections, val |-> g.database]
    /\ pc = "idle" => (g = EmptyDict /\ connections = {})
    /\ pc \in {"loop", "exit"} => connections # {}

\* A request that failed has been answered and its connection is still open;
\* close_database is about to run.
C25_Witness ==
    /\ pc = "done"
    /\ response.status = 500
    /\ connections = {1}
    /\ g = [database |-> 1]
    /\ db.issue # {}

-----------------------------------------------------------------------------
(* C26 *)

\* C26: update_issue on a stored issue, with fields whose title (if named)
\* is not empty and whose tags (if any) are complete and distinct, succeeds;
\* afterwards the title and the description are the ones fields names, or
\* the stored ones where fields names none, the issue's tags are exactly the
\* tags of fields (none when fields has no tags), and every other row is as
\* it was.
C26_UpdateIssueSemantics ==
    (/\ pc = "done"
     /\ request.method = "update_issue"
     /\ Stored(db, request.id)
     /\ Get(request.fields, "title", "a") # ""
     /\ ValidIssue(Merge(request.fields, "title", "a")))
    => LET id == request.id
           fields == request.fields
           tags == Get(fields, "tags", <<>>)
       IN /\ response.raised = "none"
          /\ Stored(tx, id)
          /\ Row(tx, id).title = Get(fields, "title", Row(db, id).title)
          /\ Row(tx, id).description = Get(fields, "description", Row(db, id).description)
          /\ Cardinality(TagsOf(tx, id)) = Len(tags)
          /\ \A t \in TagsOf(tx, id) : \E k \in DOMAIN tags : SameTag(t, tags[k])
          /\ \A k \in DOMAIN tags : \E t \in TagsOf(tx, id) : SameTag(t, tags[k])
          /\ {r \in tx.issue : r.id # id} = {r \in db.issue : r.id # id}
          /\ {t \in tx.tag : t.issue_id # id} = {t \in db.tag : t.issue_id # id}

-----------------------------------------------------------------------------
(* C27 *)

\* C27: in every state, in the committed store and in the running request's
\* view of it alike, every tag row's issue_id is the id of a stored issue.
C27_NoTagWithoutItsIssue ==
    /\ \A t \in db.tag : Stored(db, t.issue_id)
    /\ \A t \in tx.tag : Stored(tx, t.issue_id)

\* A request has failed while two issues and some tags are stored.
C27_Witness ==
    /\ pc = "done"
    /\ Failed
    /\ db.tag # {}
    /\ Cardinality(db.issue) = 2

-----------------------------------------------------------------------------
(* C28 *)

\* C28: when a PUT or PATCH of one issue and a DELETE that ran at the same
\* time have both completed, the committed store and the two responses are
\* those of running the PUT or PATCH and then the DELETE, or the DELETE and
\* then the PUT or PATCH, on the store the two requests found.
C28_ConcurrentRequestsSerialize ==
    pc = <<"done", "done">>
    => LET method == request[1].method
           issue == request[1].body.json
           first == handle_item(method, tx, issue)
           deleted == delete_statements(tx, request[2].id).db
           second == handle_item(method, deleted, issue)
       IN /\ response[2] = payload(EmptyDict, <<>>, 200)
          /\ \/ /\ db = delete_statements(first.db, request[2].id).db
                /\ response[1] \in Responses(method, first)
             \/ /\ db = second.db
                /\ response[1] \in Responses(method, second)

-----------------------------------------------------------------------------
(* C29 *)

\* C29: a PUT or PATCH of two valid items that address the same stored issue
\* succeeds; the first item's returned issue shows the first item's title,
\* the second one's shows the second item on top of the first and is the
\* issue as the request leaves it.
C29_LaterItemsSeeEarlierWrites ==
    [][(/\ Completing
        /\ request.method \in {"PUT", "PATCH"}
        /\ Len(Items) = 2
        /\ Items[1].id = Items[2].id
        /\ Stored(db, Items[1].id)
        /\ ValidIssue(Items[1])
        /\ ValidIssue(Items[2]))
       => (/\ ~Failed
           /\ Len(results) = 2
           /\ results[1].title = Items[1].title
           /\ results[2].title = Items[2].title
           /\ results[2] = get_issue(db', Items[2].id)
           /\ Row(db', Items[2].id).title = Items[2].title)]_vars

-----------------------------------------------------------------------------
(* C30 *)

\* C30: a PATCH of one stored issue whose item names neither title nor
\* description answers 200 and leaves the issue's row as it was; without a
\* tag list it leaves the whole store as it was, and with a tag list of one
\* new tag the issue owns that tag afterwards.
C30_PatchWithoutTitleOrDescription ==
    [][(/\ Completing
        /\ Single("PATCH")
        /\ Stored(db, Items[1].id)
        /\ DOMAIN Items[1] \cap {"title", "description"} = {}
        /\ Get(Items[1], "tags", <<>>) \in {<<>>, <<Tv>>})
       => (/\ response.status = 200
           /\ Stored(db', Items[1].id)
           /\ Row(db', Items[1].id) = Row(db, Items[1].id)
           /\ "tags" \notin DOMAIN Items[1] => db' = db
           /\ \A k \in DOMAIN Get(Items[1], "tags", <<>>) :
                  \E t \in TagsOf(db', Items[1].id) : SameTag(t, Items[1].tags[k]))]_vars

-----------------------------------------------------------------------------
(* C31 *)

\* The request is addressed to the issue with this id: the id a DELETE names,
\* the id of the item of a PUT or PATCH of one issue; a POST of one issue is
\* addressed to the issue it creates, which is none of the stored ones.
Addresses(id) ==
    \/ request.method = "DELETE" /\ request.id = id
    \/ request.method \in {"PUT", "PATCH"} /\ Items[1].id = id

\* C31: a DELETE, or a POST, PUT or PATCH of one issue, whether it succeeds
\* or fails, leaves the row and the tag rows of every stored issue it is not
\* addressed to as they were; so does a PATCH whose tag list names the id of
\* a tag that another issue owns.
C31_OtherIssuesUnchanged ==
    [][(/\ Completing
        /\ request.method = "DELETE" \/ Len(Items) = 1)
       => \A r \in db.issue :
              ~Addresses(r.id)
              => (/\ r \in db'.issue
                  /\ TagsOf(db', r.id) = TagsOf(db, r.id))]_vars

\* A PATCH of a stored issue names the id of a tag that another stored issue
\* owns, and is about to complete.
C31_Witness ==
    /\ pc = "exit"
    /\ Single("PATCH")
    /\ Stored(db, Items[1].id)
    /\ "tags" \in DOMAIN Items[1]
    /\ \E t \in db.tag :
          /\ t.issue_id # Items[1].id
          /\ Items[1].tags = <<[id |-> t.id]>>

-----------------------------------------------------------------------------
(* C32 *)

\* The tag rows without their ids.
TagsModuloIds(d) ==
    {[namespace |-> t.namespace, predicate |-> t.predicate, value |-> t.value,
      issue_id |-> t.issue_id] : t \in d.tag}

\* C32: when a PUT of one valid issue has succeeded, sending the same PUT
\* once more leaves the issue table as it is and the tag table as it is up
\* to the ids of the tag rows.
C32_PutIsIdempotent ==
    [][(/\ Completing
        /\ Single("PUT")
        /\ ValidIssue(Items[1])
        /\ ~Failed)
       => LET again == RunLoop("PUT", db', Items, 1)
          IN /\ again.issue = db'.issue
             /\ TagsModuloIds(again) = TagsModuloIds(db')]_vars

====
